---- MODULE Spec2Model ----
(***************************************************************************)
(* Police-Raider crime-data proxy: the request validation, rate-limiting   *)
(* and client-selection pipeline in front of the upstream data provider.   *)
(*                                                                         *)
(* JavaScript values are records [t |-> type tag, v |-> payload]; a string *)
(* is the sequence of its characters, each a one-character TLA+ string.    *)
(***************************************************************************)
EXTENDS Integers, Sequences, FiniteSets, TLC

VARIABLES
    env,        \* process.env: the variables the config module reads
    config,     \* the config module's exported object (built once, at load)
    now,        \* wall clock, in ticks of TickMs milliseconds
    counters,   \* rate-limit store: tier -> ip -> [count, start]
    admitted,   \* per tier and ip, requests admitted in the counter's window
    reqs,       \* in-flight requests, one per slot
    issued,     \* number of requests received so far
    sel,        \* the last call of ApiClientFactory.createRapidApiClient
    keyArg,     \* argument of a call of RequestUtils.validateApiKey
    keyRes,     \* its result
    sanArg,     \* argument of a call of RequestUtils.sanitizeInput
    sanRes,     \* results of applying sanitizeInput again and again
    rw,         \* an invocation of RequestUtils.requestWithRetry
    cli         \* a call of a backend client's method

vars == <<env, config, now, counters, admitted, reqs, issued, sel,
          keyArg, keyRes, sanArg, sanRes, rw, cli>>

-----------------------------------------------------------------------------
(* JavaScript values *)

Str(s) == [t |-> "string", v |-> s]
Undefined == [t |-> "undefined", v |-> <<>>]
Null == [t |-> "null", v |-> <<>>]
Num(digits) == [t |-> "number", v |-> digits]

IsString(x) == x.t = "string"

\* ToBoolean: undefined, null and "" are falsy, 0 is falsy
Truthy(x) ==
    CASE x.t = "undefined" -> FALSE
      [] x.t = "null" -> FALSE
      [] x.t = "string" -> x.v # <<>>
      [] OTHER -> x.v # <<"0">>

-----------------------------------------------------------------------------
(* Characters *)

LowerSeq == <<"a","b","c","d","e","f","g","h","i","j","k","l","m","n","o","p","q","r","s","t","u","v","w","x","y","z">>
UpperSeq == <<"A","B","C","D","E","F","G","H","I","J","K","L","M","N","O","P","Q","R","S","T","U","V","W","X","Y","Z">>
DigitSeq == <<"0","1","2","3","4","5","6","7","8","9">>

Range(f) == {f[i] : i \in DOMAIN f}

Lower == Range(LowerSeq)
Upper == Range(UpperSeq)
Digit == Range(DigitSeq)

\* \w of a JavaScript regular expression
WordChar == Lower \cup Upper \cup Digit \cup {"_"}

\* \s of a JavaScript regular expression, and what String.prototype.trim strips
Whitespace == {" ", "\t", "\n"}

\* the i flag: compare letters by their lower-case form
ToLower(c) ==
    IF c \in Upper
    THEN LowerSeq[CHOOSE i \in DOMAIN UpperSeq : UpperSeq[i] = c]
    ELSE c

\* n copies of the character c
RECURSIVE Rep(_, _)
Rep(c, n) == IF n <= 0 THEN <<>> ELSE <<c>> \o Rep(c, n - 1)

\* the concatenation of a sequence of strings
RECURSIVE Concat(_)
Concat(ss) == IF ss = <<>> THEN <<>> ELSE Head(ss) \o Concat(Tail(ss))

\* all sequences of at most n elements of S
UpTo(S, n) == UNION {[1..k -> S] : k \in 0..n}

-----------------------------------------------------------------------------
(* RequestUtils.validateApiKey *)

\* String.prototype.includes: scan the start positions left to right
RECURSIVE IncludesFrom(_, _, _)
IncludesFrom(s, pat, i) ==
    IF i + Len(pat) - 1 > Len(s) THEN FALSE
    ELSE IF SubSeq(s, i, i + Len(pat) - 1) = pat THEN TRUE
    ELSE IncludesFrom(s, pat, i + 1)

Includes(s, pat) == IncludesFrom(s, pat, 1)

YourUnderscore == <<"y","o","u","r","_">>
Example == <<"e","x","a","m","p","l","e">>

\* key.length > minLen; the length of a value that is no string is undefined,
\* and undefined > 10 is false
LengthAbove(key, minLen) == IsString(key) /\ Len(key.v) > minLen

MinKeyLength == 10

validateApiKey_OffByOne(key) ==
    IF ~Truthy(key) THEN FALSE
    ELSE /\ Truthy(key)
         /\ IsString(key) /\ Len(key.v) >= MinKeyLength
         /\ ~(IsString(key) /\ Includes(key.v, YourUnderscore))
         /\ ~(IsString(key) /\ Includes(key.v, Example))

validateApiKey(key) ==
    IF ~Truthy(key) THEN FALSE
    ELSE /\ Truthy(key)
         /\ LengthAbove(key, MinKeyLength)
         /\ ~(IsString(key) /\ Includes(key.v, YourUnderscore))
         /\ ~(IsString(key) /\ Includes(key.v, Example))

-----------------------------------------------------------------------------
(* RequestUtils.sanitizeInput *)

\* .replace(/[<>]/g, '')
RemoveAngle(s) == SelectSeq(s, LAMBDA c : c \notin {"<", ">"})

JavascriptColon == <<"j","a","v","a","s","c","r","i","p","t",":">>

\* does the literal pat match at position i, letters compared case-insensitively
LitAt(s, i, pat) ==
    /\ i + Len(pat) - 1 <= Len(s)
    /\ \A k \in 1..Len(pat) : ToLower(s[i + k - 1]) = pat[k]

\* .replace(/javascript:/gi, ''): one left-to-right pass, the scan resumes
\* after each match and never looks at the text it has already produced
RECURSIVE RemoveLitFrom(_, _, _)
RemoveLitFrom(s, pat, i) ==
    IF i > Len(s) THEN <<>>
    ELSE IF LitAt(s, i, pat) THEN RemoveLitFrom(s, pat, i + Len(pat))
    ELSE <<s[i]>> \o RemoveLitFrom(s, pat, i + 1)

RemoveJavascript(s) == RemoveLitFrom(s, JavascriptColon, 1)

\* the last index of the maximal run of word characters that starts at k
\* (k - 1 when s[k] is no word character)
RECURSIVE WordRunEnd(_, _)
WordRunEnd(s, k) ==
    IF k <= Len(s) /\ s[k] \in WordChar THEN WordRunEnd(s, k + 1) ELSE k - 1

\* the length of the match of /on\w+=/i at position i, 0 when there is none.
\* \w+ is greedy and "=" is no word character, so the only candidate is the
\* maximal run of word characters followed by "="
OnHandlerLen(s, i) ==
    IF /\ i + 1 <= Len(s)
       /\ ToLower(s[i]) = "o"
       /\ ToLower(s[i + 1]) = "n"
    THEN LET e == WordRunEnd(s, i + 2)
         IN  IF e >= i + 2 /\ e + 1 <= Len(s) /\ s[e + 1] = "="
             THEN e + 1 - i + 1
             ELSE 0
    ELSE 0

\* .replace(/on\w+=/gi, '')
RECURSIVE RemoveOnHandlerFrom(_, _)
RemoveOnHandlerFrom(s, i) ==
    IF i > Len(s) THEN <<>>
    ELSE IF OnHandlerLen(s, i) > 0
         THEN RemoveOnHandlerFrom(s, i + OnHandlerLen(s, i))
         ELSE <<s[i]>> \o RemoveOnHandlerFrom(s, i + 1)

RemoveOnHandler(s) == RemoveOnHandlerFrom(s, 1)

\* .trim()
RECURSIVE TrimLeft(_)
TrimLeft(s) ==
    IF s # <<>> /\ Head(s) \in Whitespace THEN TrimLeft(Tail(s)) ELSE s

RECURSIVE TrimRight(_)
TrimRight(s) ==
    IF s # <<>> /\ s[Len(s)] \in Whitespace
    THEN TrimRight(SubSeq(s, 1, Len(s) - 1))
    ELSE s

Trim(s) == TrimRight(TrimLeft(s))

sanitizeInput(input) ==
    IF ~IsString(input) THEN input
    ELSE Str(Trim(RemoveOnHandler(RemoveJavascript(RemoveAngle(input.v)))))

-----------------------------------------------------------------------------
(* config: built once, when the module is first required *)

MockMode == <<"m","o","c","k">>
StagingMode == <<"s","t","a","g","i","n","g">>
ProdMode == <<"p","r","o","d">>
CanaryMode == <<"c","a","n","a","r","y">>
TestEnv == <<"t","e","s","t">>
DevelopmentEnv == <<"d","e","v","e","l","o","p","m","e","n","t">>
ProductionEnv == <<"p","r","o","d","u","c","t","i","o","n">>

PlaceholderKey == <<"y","o","u","r","_","a","p","i","_","k","e","y","_","h","e","r","e">>
ValidKey == <<"v","a","l","i","d","-","a","p","i","-","k","e","y","-","1","2","3","4","5">>

\* a || b
OrElse(a, b) == IF Truthy(a) THEN a ELSE b

ConfigFromEnv(e) ==
    [ nodeEnv |-> OrElse(e.NODE_ENV, Str(DevelopmentEnv)),
      policeRaiderMode |-> OrElse(e.POLICE_RAIDER_MODE, Str(MockMode)),
      rapidApiKey |-> e.RAPIDAPI_KEY ]

\* the values process.env gives each variable in the model
NodeEnvValues == {Undefined, Str(TestEnv), Str(ProductionEnv)}
ModeValues == {Undefined, Str(MockMode), Str(StagingMode), Str(ProdMode),
               Str(CanaryMode)}
KeyValues == {Undefined, Str(<<>>), Str(PlaceholderKey), Str(ValidKey)}

Envs == [NODE_ENV : NodeEnvValues, POLICE_RAIDER_MODE : ModeValues,
         RAPIDAPI_KEY : KeyValues]

-----------------------------------------------------------------------------
(* ApiClientFactory *)

createRapidApiClient_FailOpen(cfg) ==
    LET mode == cfg.policeRaiderMode
        hasValidApiKey == validateApiKey(cfg.rapidApiKey)
    IN  IF mode = Str(MockMode) \/ ~hasValidApiKey \/ cfg.nodeEnv = Str(TestEnv)
        THEN "mock"
        ELSE "real"

createRapidApiClient_NoTestGuard(cfg) ==
    LET mode == cfg.policeRaiderMode
        hasValidApiKey == validateApiKey(cfg.rapidApiKey)
    IN  IF mode = Str(MockMode) \/ ~hasValidApiKey
        THEN "mock"
        ELSE IF mode = Str(StagingMode) \/ mode = Str(ProdMode)
             THEN "real"
             ELSE "mock"

\* which client class the factory instantiates
createRapidApiClient(cfg) ==
    LET mode == cfg.policeRaiderMode
        hasValidApiKey == validateApiKey(cfg.rapidApiKey)
    IN  IF mode = Str(MockMode) \/ ~hasValidApiKey \/ cfg.nodeEnv = Str(TestEnv)
        THEN "mock"
        ELSE IF mode = Str(StagingMode) \/ mode = Str(ProdMode)
             THEN "real"
             ELSE "mock"

getClientInfo(cfg) ==
    LET mode == cfg.policeRaiderMode
        hasValidApiKey == validateApiKey(cfg.rapidApiKey)
    IN  [ mode |-> mode,
          hasValidApiKey |-> hasValidApiKey,
          clientType |->
              IF mode = Str(MockMode) \/ ~hasValidApiKey \/ cfg.nodeEnv = Str(TestEnv)
              THEN "mock" ELSE "real",
          environment |-> cfg.nodeEnv ]

NoInfo ==
    [ mode |-> Undefined, hasValidApiKey |-> FALSE, clientType |-> "none",
      environment |-> Undefined ]

NoCall == [op |-> "none", client |-> "none", info |-> NoInfo, env |-> << >>]

\* process.env.X = value, or delete process.env.X, while the process runs
SetEnv ==
    \E e \in Envs :
        /\ e # env
        /\ \E name \in DOMAIN env : \A other \in DOMAIN env \ {name} : e[other] = env[other]
        /\ env' = e
        /\ UNCHANGED <<config, now, counters, admitted, reqs, issued, sel,
                       keyArg, keyRes, sanArg, sanRes,
                   rw, cli>>

CallCreateRapidApiClient ==
    /\ sel' = [op |-> "create", client |-> createRapidApiClient(config),
               info |-> NoInfo, env |-> <<env>>]
    /\ UNCHANGED <<env, config, now, counters, admitted, reqs, issued,
                   keyArg, keyRes, sanArg, sanRes,
                   rw, cli>>

CallGetClientInfo ==
    /\ sel' = [op |-> "info", client |-> "none",
               info |-> getClientInfo(config), env |-> <<env>>]
    /\ UNCHANGED <<env, config, now, counters, admitted, reqs, issued,
                   keyArg, keyRes, sanArg, sanRes,
                   rw, cli>>

-----------------------------------------------------------------------------
(* Calls of the pure utilities *)

NoResult == [called |-> FALSE, value |-> FALSE]

CallValidateApiKey ==
    /\ ~keyRes.called
    /\ keyRes' = [called |-> TRUE, value |-> validateApiKey(keyArg)]
    /\ UNCHANGED <<env, config, now, counters, admitted, reqs, issued, sel,
                   keyArg, sanArg, sanRes,
                   rw, cli>>

MaxApplications == 2

CallSanitizeInput ==
    /\ Len(sanRes) < MaxApplications
    /\ sanRes' = Append(sanRes,
                        sanitizeInput(IF sanRes = <<>> THEN sanArg
                                      ELSE sanRes[Len(sanRes)]))
    /\ UNCHANGED <<env, config, now, counters, admitted, reqs, issued, sel,
                   keyArg, keyRes, sanArg,
                   rw, cli>>

-----------------------------------------------------------------------------
(* Rate limiting *)

Tiers == {"general", "search", "details"}
IPs == {"ipA", "ipB"}

\* config.rateLimit: the window is the default; the request budget stands for
\* a deployment's RATE_LIMIT_MAX_REQUESTS
windowMs == 900000
MaxRequestsCfg == 4
maxRequests == MaxRequestsCfg

\* the clock advances a window at a time
TickMs == windowMs
MaxTicks == 1
nowMs == now * TickMs

\* rateLimiters: the max each limiter is created with
TierMax(tier) ==
    CASE tier = "general" -> maxRequests
      [] tier = "search" -> maxRequests \div 2
      [] tier = "details" -> maxRequests \div 4

RetryAfter_Millis(ms) == ms

\* Math.ceil(windowMs / 1000)
RetryAfter(ms) == (ms + 999) \div 1000

NoCounter == [count |-> 0, start |-> -1]

\* the window of a counter is over, or the key was never hit
Expired_Never(c) == c.start < 0

Expired(c) == c.start < 0 \/ nowMs >= c.start + windowMs

Incremented_LostUpdate(c) ==
    IF Expired(c) THEN [count |-> 1, start |-> nowMs] ELSE c

\* store.increment(key): a fresh window when the old one is over, then one
\* more hit; the new count is the caller's totalHits
Incremented(c) ==
    IF Expired(c) THEN [count |-> 1, start |-> nowMs]
    ELSE [c EXCEPT !.count = @ + 1]

OverLimit_OneLate(totalHits, tier) == totalHits > TierMax(tier) + 1

\* the limiter's decision on the totalHits it got back
OverLimit(totalHits, tier) == totalHits > TierMax(tier)

-----------------------------------------------------------------------------
(* Validation chains of the crime routes *)

LocationRule ==
    [ field |-> "location", min |-> 2, max |-> 100, optional |-> FALSE,
      charset |-> Lower \cup Upper \cup Digit \cup Whitespace \cup {",", ".", "-"} ]
CrimeTypeRule ==
    [ field |-> "crimeType", min |-> 2, max |-> 50, optional |-> TRUE,
      charset |-> Lower \cup Upper \cup Whitespace \cup {"-"} ]
IncidentIdRule ==
    [ field |-> "incidentId", min |-> 3, max |-> 20, optional |-> FALSE,
      charset |-> Lower \cup Upper \cup Digit \cup {"-"} ]

\* the validators see a missing value as the empty string
ToStringValue(x) == IF IsString(x) THEN x.v ELSE <<>>

FieldOk_NoCharset(x, rule) ==
    \/ rule.optional /\ x.t = "undefined"
    \/ LET s == ToStringValue(x)
       IN  Len(s) >= rule.min /\ Len(s) <= rule.max

\* isLength({min, max}) and matches(/^[charset]+$/), skipped for an optional
\* field that is undefined
FieldOk(x, rule) ==
    \/ rule.optional /\ x.t = "undefined"
    \/ LET s == ToStringValue(x)
       IN  /\ Len(s) >= rule.min
           /\ Len(s) <= rule.max
           /\ Len(s) >= 1
           /\ \A i \in 1..Len(s) : s[i] \in rule.charset

\* validationResult(req): the fields with an error
ValidationErrors(r) ==
    IF r.route = "search"
    THEN {rule.field : rule \in
             {x \in {LocationRule} : ~FieldOk(r.location, x)} \cup
             {x \in {CrimeTypeRule} : ~FieldOk(r.crimeType, x)}}
    ELSE {rule.field : rule \in {x \in {IncidentIdRule} : ~FieldOk(r.incidentId, x)}}

-----------------------------------------------------------------------------
(* Backends *)

\* String.prototype.toLowerCase
ToLowerCase(s) == [i \in 1..Len(s) |-> ToLower(s[i])]

Inc001 == <<"I","N","C","-","0","0","1">>
Inc002 == <<"I","N","C","-","0","0","2">>
Inc003 == <<"I","N","C","-","0","0","3">>

\* mockData.crimeData, in the order of the array
MockCrimeData ==
    << [ id |-> Inc001, type |-> <<"T","h","e","f","t">>,
         location |-> <<"D","o","w","n","t","o","w","n"," ","A","r","e","a">>,
         date |-> "2025-09-10", severity |-> "Medium",
         status |-> "Under Investigation" ],
       [ id |-> Inc002, type |-> <<"V","a","n","d","a","l","i","s","m">>,
         location |-> <<"P","a","r","k"," ","D","i","s","t","r","i","c","t">>,
         date |-> "2025-09-09", severity |-> "Low", status |-> "Closed" ],
       [ id |-> Inc003, type |-> <<"A","s","s","a","u","l","t">>,
         location |-> <<"C","o","m","m","e","r","c","i","a","l"," ",
                        "D","i","s","t","r","i","c","t">>,
         date |-> "2025-09-08", severity |-> "High", status |-> "Active" ] >>

NoRecord ==
    [ id |-> <<>>, type |-> <<>>, location |-> <<>>, date |-> "",
      severity |-> "", status |-> "" ]

\* mockData.incidentDetails, by key: the fields the entries share with the
\* records of crimeData (the entries have a longer description of their own,
\* and coordinates, time, officerBadge, caseNumber, witnesses and evidence)
MockIncidentDetails ==
    [ key \in {Inc001, Inc002} |->
        IF key = Inc001
        THEN [ id |-> Inc001, type |-> <<"T","h","e","f","t">>,
               location |-> <<"D","o","w","n","t","o","w","n"," ","A","r","e","a">>,
               date |-> "2025-09-10", severity |-> "Medium",
               status |-> "Under Investigation" ]
        ELSE [ id |-> Inc002, type |-> <<"V","a","n","d","a","l","i","s","m">>,
               location |-> <<"P","a","r","k"," ","D","i","s","t","r","i","c","t">>,
               date |-> "2025-09-09", severity |-> "Low", status |-> "Closed" ] ]

\* the own keys of mockData.incidentDetails
MockIncidentIds == DOMAIN MockIncidentDetails

\* mockData.incidentDetails is an object literal: a lookup of a key it does
\* not own goes on to Object.prototype, whose members are functions
ObjectPrototypeKeys ==
    { <<"c","o","n","s","t","r","u","c","t","o","r">>,
      <<"t","o","S","t","r","i","n","g">>,
      <<"v","a","l","u","e","O","f">> }

NoData == [kind |-> "none", ids |-> <<>>]

\* this.mockData.incidentDetails[incidentId]
IncidentDetailsLookup_OwnKeysOnly(incidentId) ==
    IF incidentId \in MockIncidentIds
    THEN [kind |-> "record", ids |-> <<incidentId>>]
    ELSE NoData

IncidentDetailsLookup(incidentId) ==
    IF incidentId \in MockIncidentIds
    THEN [kind |-> "record", ids |-> <<incidentId>>]
    ELSE IF incidentId \in ObjectPrototypeKeys
         THEN [kind |-> "inherited", ids |-> <<>>]
         ELSE NoData

FilterIncludes_CaseSensitive(results, field, text) ==
    SelectSeq(results, LAMBDA item : Includes(item[field], text.v))

\* results.filter(item => item[field].toLowerCase().includes(text.toLowerCase()))
FilterIncludes(results, field, text) ==
    SelectSeq(results,
              LAMBDA item : Includes(ToLowerCase(item[field]), ToLowerCase(text.v)))

\* RapidApiClientMock.searchCrimeData: what it resolves to
searchCrimeData(location, crimeType) ==
    LET all == MockCrimeData
        byLocation == IF Truthy(location)
                      THEN FilterIncludes(all, "location", location)
                      ELSE all
        results == IF Truthy(crimeType)
                   THEN FilterIncludes(byLocation, "type", crimeType)
                   ELSE byLocation
    IN  [ success |-> TRUE, results |-> results, total |-> Len(results),
          mock |-> TRUE ]

\* what an outbound call that fails can fail with: does the message contain
\* "not found", and the error's code
UpstreamErrors ==
    { [notFound |-> FALSE, code |-> "ECONNABORTED"],
      [notFound |-> FALSE, code |-> "ECONNREFUSED"],
      [notFound |-> TRUE, code |-> "ERR_BAD_RESPONSE"] }

NoError == [notFound |-> FALSE, code |-> "none"]
KeyRequiredError == [notFound |-> FALSE, code |-> "API_KEY_REQUIRED"]
IncidentNotFoundError == [notFound |-> TRUE, code |-> "INCIDENT_NOT_FOUND"]

\* RapidApiClientMock.getIncidentDetails: the error it throws, or NoError and
\* the details it resolves to ({success: true, data: details, mock: true})
getIncidentDetails(incidentId) ==
    LET details == IncidentDetailsLookup(incidentId)
    IN  IF details = NoData
        THEN [error |-> IncidentNotFoundError, kind |-> "none", data |-> NoRecord]
        ELSE [error |-> NoError, kind |-> details.kind,
              data |-> IF details.kind = "record"
                       THEN MockIncidentDetails[incidentId] ELSE NoRecord]

\* errorHandler: the status of the response for an error passed to next()
ErrorStatus(err) ==
    IF err.notFound THEN 404
    ELSE IF err.code \in {"ECONNREFUSED", "ENOTFOUND"} THEN 503
    ELSE 500

ErrorMessage(err) ==
    IF err.notFound THEN "Resource not found"
    ELSE IF err.code \in {"ECONNREFUSED", "ENOTFOUND"}
         THEN "Service temporarily unavailable"
         ELSE "Internal server error"

ErrorBody_AlwaysDetailed(e) == {"error", "timestamp", "path", "details", "stack"}

\* errorHandler: the fields of errorResponse; isDevelopment is read from
\* process.env when the error is handled
ErrorBody(e) ==
    {"error", "timestamp", "path"} \cup
        IF e.NODE_ENV = Str(DevelopmentEnv) THEN {"details", "stack"} ELSE {}

-----------------------------------------------------------------------------
(* RequestUtils.requestWithRetry *)

DefaultMaxRetries == 3
DefaultBaseDelay == 200
maxDelay == 3000
JitterMs == 100

Min(a, b) == IF a < b THEN a ELSE b

\* Math.random() * 100, in whole milliseconds
JitterValues == {0, JitterMs \div 2, JitterMs - 1}

BackoffDelay_Uncapped(baseDelay, attempt, jitter) ==
    baseDelay * 2^attempt + jitter

\* Math.min(baseDelay * Math.pow(2, attempt) + Math.random() * 100, maxDelay)
BackoffDelay(baseDelay, attempt, jitter) ==
    Min(baseDelay * 2^attempt + jitter, maxDelay)

LastAttempt_OneEarly(attempt, maxRetries) == attempt = maxRetries - 1

\* attempt === maxRetries
LastAttempt(attempt, maxRetries) == attempt = maxRetries

Rethrown_First(errors) == Head(errors)

\* throw error: the error caught in this iteration
Rethrown(errors) == errors[Len(errors)]

RwIdle ==
    [ pc |-> "idle", maxRetries |-> 0, baseDelay |-> 0, attempt |-> 0,
      calls |-> 0, sleeps |-> <<>>, errors |-> <<>>, thrown |-> NoError,
      result |-> "none" ]

\* the loop's test: attempt <= maxRetries; the function returns undefined
\* when the loop ends
LoopPc(attempt, maxRetries) ==
    IF attempt <= maxRetries THEN "attempt" ELSE "returned"

\* the loop's test on the invocation r: the next iteration, or the end of the
\* function body, where the promise resolves to undefined
Loop(r) ==
    [r EXCEPT !.pc = LoopPc(r.attempt, r.maxRetries),
              !.result = IF LoopPc(r.attempt, r.maxRetries) = "returned"
                         THEN "undefined" ELSE @]

\* the invocation at its first iteration
RwStart(maxRetries, baseDelay) ==
    Loop([RwIdle EXCEPT !.maxRetries = maxRetries, !.baseDelay = baseDelay])

\* the arguments a caller can pass: maxRetries is any number
RetryArgs ==
    [ maxRetries : {-1, 0, 1, DefaultMaxRetries},
      baseDelay : {DefaultBaseDelay, 1000} ]

Returns_GoesOn(r) == [r EXCEPT !.pc = "sleep", !.result = "response"]

\* return response
Returns(r) == [r EXCEPT !.pc = "returned", !.result = "response"]

\* RequestUtils.requestWithRetry(url, options, maxRetries, baseDelay)
CallRequestWithRetry ==
    /\ rw.pc = "idle"
    /\ \E a \in RetryArgs : rw' = RwStart(a.maxRetries, a.baseDelay)
    /\ UNCHANGED <<env, config, now, counters, admitted, reqs, issued, sel,
                   keyArg, keyRes, sanArg, sanRes, cli>>

\* await axios(url, requestOptions) resolves: return response
AttemptSucceeds ==
    /\ rw.pc = "attempt"
    /\ rw' = Returns([rw EXCEPT !.calls = @ + 1])
    /\ UNCHANGED <<env, config, now, counters, admitted, reqs, issued, sel,
                   keyArg, keyRes, sanArg, sanRes, cli>>

\* await axios(url, requestOptions) rejects: the catch block up to its throw
\* or to its await of the backoff timer
AttemptFails ==
    /\ rw.pc = "attempt"
    /\ \E error \in UpstreamErrors :
          LET failed == [rw EXCEPT !.calls = @ + 1,
                                   !.errors = Append(@, error)]
          IN  IF LastAttempt(rw.attempt, rw.maxRetries)
              THEN rw' = [failed EXCEPT !.pc = "thrown",
                                        !.thrown = Rethrown(failed.errors)]
              ELSE \E jitter \in JitterValues :
                      rw' = [failed EXCEPT
                                !.pc = "sleep",
                                !.sleeps = Append(@,
                                    [ attempt |-> rw.attempt,
                                      jitter |-> jitter,
                                      delay |-> BackoffDelay(rw.baseDelay,
                                                             rw.attempt,
                                                             jitter) ])]
    /\ UNCHANGED <<env, config, now, counters, admitted, reqs, issued, sel,
                   keyArg, keyRes, sanArg, sanRes, cli>>

\* the backoff timer fires: attempt++ and the loop's test
SleepEnds ==
    /\ rw.pc = "sleep"
    /\ rw' = Loop([rw EXCEPT !.attempt = @ + 1])
    /\ UNCHANGED <<env, config, now, counters, admitted, reqs, issued, sel,
                   keyArg, keyRes, sanArg, sanRes, cli>>

-----------------------------------------------------------------------------
(* Calls of the backend clients' methods *)

NoParams == [location |-> Undefined, crime_type |-> Undefined, id |-> Undefined]
NoSearchResult == [success |-> FALSE, results |-> <<>>, total |-> 0, mock |-> FALSE]

CliIdle ==
    [ pc |-> "idle", client |-> "none", method |-> "none", apiKey |-> Undefined,
      location |-> Undefined, crimeType |-> Undefined, incidentId |-> Undefined,
      params |-> NoParams, error |-> NoError, result |-> NoSearchResult,
      details |-> [kind |-> "none", data |-> NoRecord] ]

Downtown == <<"d","o","w","n","t","o","w","n">>
Theft == <<"t","h","e","f","t">>

\* the arguments of the calls of the real client's methods
RealSearchArgs ==
    [ location : {Str(Downtown), Str(<<" ","<","b",">","P","a","r","k"," ">>)},
      crimeType : {Null, Str(Theft)} ]
RealIncidentArgs == {Str(Inc001), Str(<<"<","I","N","C","-","0","0","2",">">>)}

KeyCheckFails_Never(apiKey) == FALSE

\* if (!RequestUtils.validateApiKey(this.apiKey))
KeyCheckFails(apiKey) == ~validateApiKey(apiKey)

\* the method of a RapidApiClient up to its throw or to its await of
\* requestWithRetry; the constructor has stored config.apis.rapidApiKey
RealClientCalled(call, params) ==
    /\ cli.pc = "idle"
    /\ rw.pc = "idle"
    /\ IF KeyCheckFails(config.rapidApiKey)
       THEN /\ cli' = [call EXCEPT !.pc = "thrown", !.error = KeyRequiredError]
            /\ UNCHANGED rw
       ELSE /\ cli' = [call EXCEPT !.pc = "awaiting", !.params = params]
            /\ rw' = RwStart(DefaultMaxRetries, DefaultBaseDelay)
    /\ UNCHANGED <<env, config, now, counters, admitted, reqs, issued, sel,
                   keyArg, keyRes, sanArg, sanRes>>

\* new RapidApiClient().searchCrimeData(location, crimeType)
CallRealSearchCrimeData ==
    \E a \in RealSearchArgs :
        LET sanitizedCrimeType == IF Truthy(a.crimeType)
                                  THEN sanitizeInput(a.crimeType) ELSE Null
        IN  RealClientCalled(
                [CliIdle EXCEPT !.client = "real", !.method = "searchCrimeData",
                                !.apiKey = config.rapidApiKey,
                                !.location = a.location, !.crimeType = a.crimeType],
                [NoParams EXCEPT !.location = sanitizeInput(a.location),
                                 !.crime_type = IF Truthy(sanitizedCrimeType)
                                                THEN sanitizedCrimeType
                                                ELSE Undefined])

\* new RapidApiClient().getIncidentDetails(incidentId)
CallRealGetIncidentDetails ==
    \E id \in RealIncidentArgs :
        RealClientCalled(
            [CliIdle EXCEPT !.client = "real", !.method = "getIncidentDetails",
                            !.apiKey = config.rapidApiKey, !.incidentId = id],
            [NoParams EXCEPT !.id = sanitizeInput(id)])

\* the awaited requestWithRetry settles: return response.data, or the catch
\* block's throw error
RealClientSettles ==
    /\ cli.pc = "awaiting"
    /\ rw.pc \in {"returned", "thrown"}
    /\ cli' = [cli EXCEPT !.pc = rw.pc, !.error = rw.thrown]
    /\ UNCHANGED <<env, config, now, counters, admitted, reqs, issued, sel,
                   keyArg, keyRes, sanArg, sanRes, rw>>

\* the arguments of the calls of the mock client's searchCrimeData
MockLocationArgs ==
    { Undefined, Str(<<>>), Str(Downtown), Str(<<"D","O","W","N">>),
      Str(<<"d","i","s","t","r","i","c","t">>), Str(<<"P","a","r","k">>),
      Str(<<"a","r","e","a">>), Str(<<"t"," ","a">>), Str(<<" ">>),
      Str(<<" "," ">>), Str(<<"u","p","t","o","w","n">>), Str(<<"c","t">>),
      Str(<<"D","o","w","n","t","o","w","n"," ","A","r","e","a","s">>),
      Str(<<"P","A","R","K"," ","D","I","S","T","R","I","C","T">>),
      Str(<<"o","m","m","e","r","c">>) }
MockCrimeTypeArgs ==
    { Undefined, Null, Str(<<>>), Str(Theft), Str(<<"T","H","E","F","T">>),
      Str(<<"a">>), Str(<<"a","s","s">>), Str(<<"f","r","a","u","d">>) }

\* new RapidApiClientMock().searchCrimeData(location, crimeType)
CallMockSearchCrimeData ==
    /\ \E location \in MockLocationArgs, crimeType \in MockCrimeTypeArgs :
          cli' = [CliIdle EXCEPT !.pc = "returned", !.client = "mock",
                                 !.method = "searchCrimeData",
                                 !.location = location,
                                 !.crimeType = IF crimeType = Undefined
                                                THEN Null ELSE crimeType,
                                 !.result = searchCrimeData(location,
                                     IF crimeType = Undefined
                                     THEN Null ELSE crimeType)]
    /\ UNCHANGED <<env, config, now, counters, admitted, reqs, issued, sel,
                   keyArg, keyRes, sanArg, sanRes, rw>>

MockIncidentIdArgs ==
    { Inc001, Inc002, Inc003, <<"I","N","C","-","9","9","9">>,
      <<"c","o","n","s","t","r","u","c","t","o","r">> }

\* getIncidentDetails(incidentId) on the mock client, by a caller that may
\* have taken the id from the search result it holds
CallMockGetIncidentDetails ==
    /\ cli.client \in {"none", "mock"}
    /\ \E incidentId \in MockIncidentIdArgs :
          LET out == getIncidentDetails(incidentId)
          IN  cli' = [cli EXCEPT !.pc = IF out.error = NoError
                                        THEN "returned" ELSE "thrown",
                                 !.client = "mock",
                                 !.method = "getIncidentDetails",
                                 !.incidentId = Str(incidentId),
                                 !.error = out.error,
                                 !.details = [kind |-> out.kind, data |-> out.data]]
    /\ UNCHANGED <<env, config, now, counters, admitted, reqs, issued, sel,
                   keyArg, keyRes, sanArg, sanRes, rw>>

-----------------------------------------------------------------------------
(* Requests *)

MaxInFlight == 2
MaxIssued == 5

\* the query strings and path parameters the clients send
SearchInputs ==
    { [location |-> Str(<<"d","o","w","n","t","o","w","n">>), crimeType |-> Undefined],
      [location |-> Str(<<"d","o","w","n","t","o","w","n">>),
       crimeType |-> Str(<<"t","h","e","f","t">>)],
      [location |-> Str(<<"d","o","w","n","t","o","w","n">>), crimeType |-> Str(<<"t">>)],
      [location |-> Undefined, crimeType |-> Undefined],
      [location |-> Str(<<"x">>), crimeType |-> Undefined],
      [location |-> Str(<<"<","s",">">>), crimeType |-> Undefined],
      [location |-> Str(Rep("a", LocationRule.max + 1)), crimeType |-> Undefined] }
IncidentIdInputs ==
    { Str(<<"I","N","C","-","0","0","1">>),
      Str(<<"I","N","C","-","9","9","9">>),
      Str(<<"x">>),
      Str(<<"I","N","C","<">>) }

\* the requests of the client that exercises every endpoint
ApiIPs == {"ipA"}
ApiSearchInputs ==
    { [location |-> Str(Downtown), crimeType |-> Undefined],
      [location |-> Str(<<"d","i","s","t","r","i","c","t">>),
       crimeType |-> Str(<<"a","s","s">>)],
      [location |-> Undefined, crimeType |-> Undefined],
      [location |-> Str(<<" ">>), crimeType |-> Undefined],
      [location |-> Str(<<" ", " ">>), crimeType |-> Undefined],
      [location |-> Str(<<" ", "\t", " ">>), crimeType |-> Undefined] }
ApiIncidentIdInputs ==
    { Str(Inc001),
      Str(Inc003),
      Str(<<"I","N","C","-","9","9","9">>),
      Str(<<"c","o","n","s","t","r","u","c","t","o","r">>),
      Str(<<"_","_","p","r","o","t","o","_","_">>) }

NoHits == [t \in Tiers |-> 0]
NoWindows == [t \in Tiers |-> -1]
NoHealth ==
    [status |-> "none", environment |-> Undefined, mode |-> Undefined,
     type |-> "none"]

IdleReq ==
    [ pc |-> "idle", ip |-> "none", route |-> "none",
      location |-> Undefined, crimeType |-> Undefined, incidentId |-> Undefined,
      hits |-> NoHits, win |-> NoWindows,
      validated |-> FALSE, client |-> "none", called |-> "none",
      selections |-> 0, calls |-> 0, responses |-> 0,
      status |-> 0, error |-> "none", retryAfter |-> 0,
      body |-> {}, data |-> NoData, thrown |-> NoError, health |-> NoHealth ]

TierAt_RoutesSwapped(r) ==
    IF r.pc \in {"general", "generalCheck"} THEN "general"
    ELSE IF r.route = "search" THEN "details" ELSE "search"

AfterReceived_HealthExempt(r) ==
    IF r.route = "health" THEN "controller" ELSE "general"

\* where a request goes when it has been received: app.use(rateLimiters.general)
\* is ahead of every route
AfterReceived(r) == "general"

AfterGeneral_SkipRouteLimiter(r) ==
    IF r.route = "health" THEN "controller" ELSE "validate"

\* where next() of the general limiter leads: the crime routes start with
\* their own limiter, the health route with its controller
AfterGeneral(r) == IF r.route = "health" THEN "controller" ELSE "tier"

TierAt_GeneralOnly(r) == "general"

\* the limiter a request is at
TierAt(r) ==
    IF r.pc \in {"general", "generalCheck"} THEN "general"
    ELSE IF r.route = "search" THEN "search" ELSE "details"

Respond(r, status, error, body) ==
    [r EXCEPT !.pc = "sent", !.status = status, !.error = error, !.body = body,
              !.responses = @ + 1]

\* a request arrives at the application: one of the clients ips sends one of
\* the search queries or one of the incident ids
ArriveFrom(s, ips, searches, ids) ==
    /\ reqs[s].pc = "idle"
    /\ issued < MaxIssued
    /\ issued' = issued + 1
    /\ \E ip \in ips :
          \/ \E q \in searches :
                reqs' = [reqs EXCEPT ![s] =
                            [IdleReq EXCEPT !.pc = AfterReceived(IdleReq),
                                            !.ip = ip,
                                            !.route = "search",
                                            !.location = q.location,
                                            !.crimeType = q.crimeType]]
          \/ \E id \in ids :
                reqs' = [reqs EXCEPT ![s] =
                            [IdleReq EXCEPT !.pc = AfterReceived(IdleReq),
                                            !.ip = ip,
                                            !.route = "incident",
                                            !.incidentId = id]]
    /\ UNCHANGED <<env, config, now, counters, admitted, sel,
                   keyArg, keyRes, sanArg, sanRes,
                   rw, cli>>

Arrive(s) == ArriveFrom(s, IPs, SearchInputs, IncidentIdInputs)

ArriveApi(s) == ArriveFrom(s, ApiIPs, ApiSearchInputs, ApiIncidentIdInputs)

LiveSearchInputs ==
    { [location |-> Str(<<"d","o","w","n","t","o","w","n">>),
       crimeType |-> Undefined],
      [location |-> Undefined, crimeType |-> Undefined] }
LiveIncidentIdInputs ==
    { Str(<<"I","N","C","-","0","0","1">>), Str(<<"I","N","C","-","9","9","9">>) }

MaxLiveIssued == 2

ArriveLive(s) ==
    /\ issued < MaxLiveIssued
    /\ ArriveFrom(s, ApiIPs, LiveSearchInputs, LiveIncidentIdInputs)

\* GET /health arrives at the application
ArriveHealth(s) ==
    /\ reqs[s].pc = "idle"
    /\ issued < MaxIssued
    /\ issued' = issued + 1
    /\ \E ip \in ApiIPs :
          LET r == [IdleReq EXCEPT !.ip = ip, !.route = "health"]
          IN  reqs' = [reqs EXCEPT ![s] = [r EXCEPT !.pc = AfterReceived(r)]]
    /\ UNCHANGED <<env, config, now, counters, admitted, sel,
                   keyArg, keyRes, sanArg, sanRes,
                   rw, cli>>

\* the same, from one client and with one query of each kind
ArriveBurst(s) ==
    ArriveFrom(s, {"ipA"},
               { [location |-> Str(<<"d","o","w","n","t","o","w","n">>),
                  crimeType |-> Undefined] },
               { Str(<<"I","N","C","-","0","0","1">>) })

keyGenerator_OneKey(r) == "ipA"

\* the key a limiter counts a request under: no keyGenerator is configured,
\* so it is the library's default, req.ip
keyGenerator(r) == r.ip

\* a limiter counts the request: store.increment(key)
RateLimitIncrement(s) ==
    LET r == reqs[s]
        t == TierAt(r)
        k == keyGenerator(r)
        c == Incremented(counters[t][k])
    IN  /\ r.pc \in {"general", "tier"}
        /\ counters' = [counters EXCEPT ![t][k] = c]
        /\ admitted' = [admitted EXCEPT ![t][k] =
                           IF Expired(counters[t][k]) THEN 0 ELSE @]
        /\ reqs' = [reqs EXCEPT ![s] =
                       [r EXCEPT !.pc = IF r.pc = "general" THEN "generalCheck"
                                        ELSE "tierCheck",
                                 !.hits[t] = c.count,
                                 !.win[t] = c.start]]
        /\ UNCHANGED <<env, config, now, issued, sel,
                       keyArg, keyRes, sanArg, sanRes,
                   rw, cli>>

\* the limiter decides on the totalHits it was given: the 429 handler, or next()
RateLimitCheck(s) ==
    LET r == reqs[s]
        t == TierAt(r)
        k == keyGenerator(r)
    IN  /\ r.pc \in {"generalCheck", "tierCheck"}
        /\ IF OverLimit(r.hits[t], t)
           THEN /\ reqs' = [reqs EXCEPT ![s] =
                               [Respond(r, 429, "Too many requests from this IP",
                                        {"error", "retryAfter"})
                                   EXCEPT !.retryAfter = RetryAfter(windowMs)]]
                /\ UNCHANGED admitted
           ELSE /\ reqs' = [reqs EXCEPT ![s] =
                               [r EXCEPT !.pc = IF r.pc = "generalCheck"
                                                THEN AfterGeneral(r)
                                                ELSE "validate"]]
                /\ admitted' = [admitted EXCEPT ![t][k] =
                                   IF counters[t][k].start = r.win[t]
                                   THEN @ + 1 ELSE @]
        /\ UNCHANGED <<env, config, now, counters, issued, sel,
                       keyArg, keyRes, sanArg, sanRes,
                   rw, cli>>

\* the route's validation chain, then validationMiddleware
Validate(s) ==
    LET r == reqs[s]
    IN  /\ r.pc = "validate"
        /\ reqs' = [reqs EXCEPT ![s] =
                       IF ValidationErrors(r) # {}
                       THEN Respond(r, 400, "Validation failed",
                                    {"error", "details"})
                       ELSE [r EXCEPT !.pc = "controller", !.validated = TRUE]]
        /\ UNCHANGED <<env, config, now, counters, admitted, issued, sel,
                       keyArg, keyRes, sanArg, sanRes,
                   rw, cli>>

\* CrimeController.search up to its await
ControllerSearch(s) ==
    LET r == reqs[s]
    IN  /\ r.pc = "controller"
        /\ r.route = "search"
        /\ reqs' = [reqs EXCEPT ![s] =
                       IF ~Truthy(r.location)
                       THEN Respond(r, 400, "Location parameter is required",
                                    {"error"})
                       ELSE [r EXCEPT !.pc = "backend",
                                      !.client = createRapidApiClient(config),
                                      !.selections = @ + 1,
                                      !.called = "searchCrimeData",
                                      !.calls = @ + 1]]
        /\ UNCHANGED <<env, config, now, counters, admitted, issued, sel,
                       keyArg, keyRes, sanArg, sanRes,
                   rw, cli>>

\* CrimeController.getIncidentDetails up to its await
ControllerDetails(s) ==
    LET r == reqs[s]
    IN  /\ r.pc = "controller"
        /\ r.route = "incident"
        /\ reqs' = [reqs EXCEPT ![s] =
                       [r EXCEPT !.pc = "backend",
                                 !.client = createRapidApiClient(config),
                                 !.selections = @ + 1,
                                 !.called = "getIncidentDetails",
                                 !.calls = @ + 1]]
        /\ UNCHANGED <<env, config, now, counters, admitted, issued, sel,
                       keyArg, keyRes, sanArg, sanRes,
                   rw, cli>>

\* HealthController.health
ControllerHealth(s) ==
    LET r == reqs[s]
    IN  /\ r.pc = "controller"
        /\ r.route = "health"
        /\ reqs' = [reqs EXCEPT ![s] =
                       [Respond(r, 200, "none",
                                {"status", "timestamp", "version", "environment",
                                 "mode", "services"})
                           EXCEPT !.health =
                               [ status |-> "healthy",
                                 environment |-> config.nodeEnv,
                                 mode |-> config.policeRaiderMode,
                                 type |-> getClientInfo(config).clientType ]]]
        /\ UNCHANGED <<env, config, now, counters, admitted, issued, sel,
                       keyArg, keyRes, sanArg, sanRes,
                       rw, cli>>

\* the ids of the records of a search result
RECURSIVE IdsOf(_)
IdsOf(results) ==
    IF results = <<>> THEN <<>> ELSE <<Head(results).id>> \o IdsOf(Tail(results))

\* the outcomes of the backend call: the error it throws, or NoError and the
\* data it resolves to
BackendOutcomes(r) ==
    IF r.client = "mock"
    THEN IF r.called = "getIncidentDetails"
         THEN LET details == IncidentDetailsLookup(r.incidentId.v)
              IN  IF details = NoData
                  THEN {[error |-> IncidentNotFoundError, data |-> NoData]}
                  ELSE {[error |-> NoError, data |-> details]}
         ELSE {[ error |-> NoError,
                 data |-> [ kind |-> "results",
                            ids |-> IdsOf(searchCrimeData(r.location,
                                                          r.crimeType).results) ] ]}
    ELSE IF KeyCheckFails(config.rapidApiKey)
         THEN {[error |-> KeyRequiredError, data |-> NoData]}
         ELSE {[error |-> NoError, data |-> [kind |-> "upstream", ids |-> <<>>]]}
                  \cup {[error |-> e, data |-> NoData] : e \in UpstreamErrors}

Caught_CallsAgain(r, response) ==
    IF r.calls < 2 THEN [r EXCEPT !.pc = "controller"] ELSE response

\* the controller's catch block: it answers, or hands the error to
\* next(error), and does not go back to the call
Caught(r, response) == response

\* what the controller does with the outcome of the awaited call: res.json,
\* the incident controller's 404, or next(error) and the errorHandler
Answer(r, out) ==
    IF out.error = NoError
    THEN [Respond(r, 200, "none", {"success", "data", "meta"})
             EXCEPT !.data = out.data]
    ELSE IF r.called = "getIncidentDetails" /\ out.error.notFound
         THEN Caught(r, [Respond(r, 404, "Incident not found",
                                 {"error", "incidentId"})
                            EXCEPT !.thrown = out.error])
         ELSE Caught(r, [Respond(r, ErrorStatus(out.error),
                                 ErrorMessage(out.error), ErrorBody(env))
                            EXCEPT !.thrown = out.error])

\* the awaited backend call settles and the controller answers
BackendSettle(s) ==
    LET r == reqs[s]
    IN  /\ r.pc = "backend"
        /\ \E out \in BackendOutcomes(r) :
              reqs' = [reqs EXCEPT ![s] = Answer(r, out)]
        /\ UNCHANGED <<env, config, now, counters, admitted, issued, sel,
                       keyArg, keyRes, sanArg, sanRes,
                       rw, cli>>

\* the mock's delay timer fires and the controller answers
MockBackendSettle(s) ==
    /\ reqs[s].client = "mock"
    /\ BackendSettle(s)

\* the method of the real client up to its await: the key check, then
\* requestWithRetry with its default maxRetries and baseDelay
RealBackendStarts(s) ==
    LET r == reqs[s]
    IN  /\ r.pc = "backend"
        /\ r.client = "real"
        /\ rw.pc = "idle"
        /\ IF KeyCheckFails(config.rapidApiKey)
           THEN /\ reqs' = [reqs EXCEPT ![s] =
                               Answer(r, [error |-> KeyRequiredError,
                                          data |-> NoData])]
                /\ UNCHANGED rw
           ELSE /\ reqs' = [reqs EXCEPT ![s] = [r EXCEPT !.pc = "awaiting"]]
                /\ rw' = RwStart(DefaultMaxRetries, DefaultBaseDelay)
        /\ UNCHANGED <<env, config, now, counters, admitted, issued, sel,
                       keyArg, keyRes, sanArg, sanRes, cli>>

Settled_OnlyReturned(w) == w.pc = "returned"

\* the promise of requestWithRetry is settled
Settled(w) == w.pc \in {"returned", "thrown"}

\* requestWithRetry has returned or thrown: the real client returns
\* response.data or rethrows, and the controller answers
RealBackendSettles(s) ==
    LET r == reqs[s]
        out == IF rw.pc = "thrown"
               THEN [error |-> rw.thrown, data |-> NoData]
               ELSE [error |-> NoError,
                     data |-> [kind |-> "upstream", ids |-> <<>>]]
    IN  /\ r.pc = "awaiting"
        /\ Settled(rw)
        /\ reqs' = [reqs EXCEPT ![s] = Answer(r, out)]
        /\ rw' = RwIdle
        /\ UNCHANGED <<env, config, now, counters, admitted, issued, sel,
                       keyArg, keyRes, sanArg, sanRes, cli>>

\* the response is on the wire and the request is gone
Finish(s) ==
    /\ reqs[s].pc = "sent"
    /\ reqs' = [reqs EXCEPT ![s] = IdleReq]
    /\ UNCHANGED <<env, config, now, counters, admitted, issued, sel,
                   keyArg, keyRes, sanArg, sanRes,
                   rw, cli>>

Tick ==
    /\ now < MaxTicks
    /\ now' = now + 1
    /\ UNCHANGED <<env, config, counters, admitted, reqs, issued, sel,
                   keyArg, keyRes, sanArg, sanRes,
                   rw, cli>>

-----------------------------------------------------------------------------
(* Specifications *)

DefaultEnv ==
    [NODE_ENV |-> Undefined, POLICE_RAIDER_MODE |-> Undefined,
     RAPIDAPI_KEY |-> Undefined]
ProductionDeployment ==
    [NODE_ENV |-> Str(ProductionEnv), POLICE_RAIDER_MODE |-> Str(ProdMode),
     RAPIDAPI_KEY |-> Str(ValidKey)]
DevelopmentDeployment ==
    [NODE_ENV |-> Str(DevelopmentEnv), POLICE_RAIDER_MODE |-> Str(StagingMode),
     RAPIDAPI_KEY |-> Str(ValidKey)]

ServerIdle(slots) ==
    /\ now = 0
    /\ counters = [t \in Tiers |-> [ip \in IPs |-> NoCounter]]
    /\ admitted = [t \in Tiers |-> [ip \in IPs |-> 0]]
    /\ reqs = [s \in 1..slots |-> IdleReq]
    /\ issued = 0

UtilitiesIdle ==
    /\ sel = NoCall
    /\ keyArg = Undefined
    /\ keyRes = NoResult
    /\ sanArg = Undefined
    /\ sanRes = <<>>
    /\ rw = RwIdle
    /\ cli = CliIdle

\* the server: requests of the clients, one at a time, against a started process
Init ==
    /\ env \in {DefaultEnv, ProductionDeployment}
    /\ config = ConfigFromEnv(env)
    /\ ServerIdle(1)
    /\ UtilitiesIdle

Next ==
    \/ \E s \in DOMAIN reqs :
          \/ Arrive(s)
          \/ RateLimitIncrement(s)
          \/ RateLimitCheck(s)
          \/ Validate(s)
          \/ ControllerSearch(s)
          \/ ControllerDetails(s)
          \/ BackendSettle(s)
          \/ Finish(s)
    \/ Tick

Spec == Init /\ [][Next]_vars

\* the server under a burst: up to MaxInFlight requests of one client in
\* flight at once, all within one window
InitBurst ==
    /\ env = DefaultEnv
    /\ config = ConfigFromEnv(env)
    /\ ServerIdle(MaxInFlight)
    /\ UtilitiesIdle

NextBurst ==
    \/ \E s \in DOMAIN reqs :
          \/ ArriveBurst(s)
          \/ RateLimitIncrement(s)
          \/ RateLimitCheck(s)
          \/ Validate(s)
          \/ ControllerSearch(s)
          \/ ControllerDetails(s)
          \/ BackendSettle(s)
          \/ Finish(s)

SpecBurst == InitBurst /\ [][NextBurst]_vars

\* the server with every endpoint, under each deployment: the requests of one
\* client, one at a time
InitApi ==
    /\ env \in {DefaultEnv, ProductionDeployment, DevelopmentDeployment}
    /\ config = ConfigFromEnv(env)
    /\ ServerIdle(1)
    /\ UtilitiesIdle

NextApi ==
    \/ \E s \in DOMAIN reqs :
          \/ ArriveApi(s)
          \/ ArriveHealth(s)
          \/ RateLimitIncrement(s)
          \/ RateLimitCheck(s)
          \/ Validate(s)
          \/ ControllerSearch(s)
          \/ ControllerDetails(s)
          \/ ControllerHealth(s)
          \/ BackendSettle(s)
          \/ Finish(s)
    \/ Tick

SpecApi == InitApi /\ [][NextApi]_vars

\* the server with the outbound attempts and backoff sleeps of the real
\* backend's call as steps of their own: the crime requests of one client, one
\* at a time and within one window. Every callback that is ready is run by the event loop, every
\* timer (the mock's delay, a backoff sleep) fires, and every outbound attempt
\* settles, by its response or by its timeout of 8000 ms.
InitLive ==
    /\ env \in {DefaultEnv, ProductionDeployment}
    /\ config = ConfigFromEnv(env)
    /\ ServerIdle(1)
    /\ UtilitiesIdle

NextLive ==
    \/ \E s \in DOMAIN reqs :
          \/ ArriveLive(s)
          \/ RateLimitIncrement(s)
          \/ RateLimitCheck(s)
          \/ Validate(s)
          \/ ControllerSearch(s)
          \/ ControllerDetails(s)
          \/ MockBackendSettle(s)
          \/ RealBackendStarts(s)
          \/ RealBackendSettles(s)
          \/ Finish(s)
    \/ AttemptSucceeds
    \/ AttemptFails
    \/ SleepEnds

FairLive ==
    /\ \A s \in {1} :
          /\ WF_vars(RateLimitIncrement(s))
          /\ WF_vars(RateLimitCheck(s))
          /\ WF_vars(Validate(s))
          /\ WF_vars(ControllerSearch(s))
          /\ WF_vars(ControllerDetails(s))
          /\ WF_vars(MockBackendSettle(s))
          /\ WF_vars(RealBackendStarts(s))
          /\ WF_vars(RealBackendSettles(s))
    /\ WF_vars(AttemptSucceeds \/ AttemptFails)
    /\ WF_vars(SleepEnds)

SpecLive == InitLive /\ [][NextLive]_vars /\ FairLive

\* the factory, under every environment and with the environment changing
InitSel ==
    /\ env \in Envs
    /\ config = ConfigFromEnv(env)
    /\ ServerIdle(1)
    /\ UtilitiesIdle

NextSel == SetEnv \/ CallCreateRapidApiClient \/ CallGetClientInfo

SpecSel == InitSel /\ [][NextSel]_vars

\* validateApiKey on the keys built from at most MaxKeyParts parts
MaxKeyParts == 3
KeyParts ==
    { YourUnderscore, Example, <<"s","h","o","r","t">>, <<"x">>, ValidKey }
KeyInputs ==
    {Undefined, Null, Num(<<"1","2","3","4","5","6","7","8","9","0","1">>)}
        \cup {Str(Concat(ps)) : ps \in UpTo(KeyParts, MaxKeyParts)}

InitKey ==
    /\ env = DefaultEnv
    /\ config = ConfigFromEnv(env)
    /\ ServerIdle(1)
    /\ sel = NoCall
    /\ keyArg \in KeyInputs
    /\ keyRes = NoResult
    /\ sanArg = Undefined
    /\ sanRes = <<>>
    /\ rw = RwIdle
    /\ cli = CliIdle

SpecKey == InitKey /\ [][CallValidateApiKey]_vars

\* sanitizeInput on the strings built from at most MaxSanParts parts
MaxSanParts == 3
SanParts ==
    { <<"<">>, <<">">>, <<" ">>, <<"a">>, <<"o">>, <<"n","x","=">>,
      <<"o","n">>, <<"j","a">>, <<"v","a","s","c","r","i","p","t",":">>,
      <<"J","a","v","a","S","c","r","i","p","t",":">> }
SanInputs ==
    {Undefined, Num(<<"1","2","3">>)}
        \cup {Str(Concat(ps)) : ps \in UpTo(SanParts, MaxSanParts)}

InitSan ==
    /\ env = DefaultEnv
    /\ config = ConfigFromEnv(env)
    /\ ServerIdle(1)
    /\ sel = NoCall
    /\ keyArg = Undefined
    /\ keyRes = NoResult
    /\ sanArg \in SanInputs
    /\ sanRes = <<>>
    /\ rw = RwIdle
    /\ cli = CliIdle

SpecSan == InitSan /\ [][CallSanitizeInput]_vars

\* requestWithRetry, called with each of the arguments against an upstream
\* that answers or fails each attempt
InitRetry ==
    /\ env = DefaultEnv
    /\ config = ConfigFromEnv(env)
    /\ ServerIdle(1)
    /\ UtilitiesIdle

NextRetry == CallRequestWithRetry \/ AttemptSucceeds \/ AttemptFails \/ SleepEnds

SpecRetry == InitRetry /\ [][NextRetry]_vars

\* the real client, constructed under each credential and called directly
InitClient ==
    /\ env \in {e \in Envs : /\ e.NODE_ENV = Undefined
                             /\ e.POLICE_RAIDER_MODE = Undefined}
    /\ config = ConfigFromEnv(env)
    /\ ServerIdle(1)
    /\ UtilitiesIdle

NextClient ==
    \/ CallRealSearchCrimeData
    \/ CallRealGetIncidentDetails
    \/ AttemptSucceeds
    \/ AttemptFails
    \/ SleepEnds
    \/ RealClientSettles

SpecClient == InitClient /\ [][NextClient]_vars

\* the mock client's search, called directly
InitMock ==
    /\ env = DefaultEnv
    /\ config = ConfigFromEnv(env)
    /\ ServerIdle(1)
    /\ UtilitiesIdle

NextMock == CallMockSearchCrimeData \/ CallMockGetIncidentDetails

SpecMock == InitMock /\ [][NextMock]_vars

-----------------------------------------------------------------------------
(* Properties *)

Sent(r) == r.pc = "sent"
ValidationFailed(r) ==
    Sent(r) /\ r.status = 400 /\ r.error = "Validation failed"

\* the limiter of the request's route, and the limiter of the other route
RouteTier(r) == IF r.route = "search" THEN "search" ELSE "details"
OtherTier(r) == IF r.route = "search" THEN "details" ELSE "search"

\* the request has been through the decision of the limiter t
Decided(r, t) ==
    /\ r.hits[t] > 0
    /\ IF t = "general" THEN r.pc \notin {"general", "generalCheck"}
       ELSE r.pc \notin {"general", "generalCheck", "tier", "tierCheck"}

\* the limiter t has answered the request 429
RejectedBy(r, t) ==
    /\ Sent(r) /\ r.status = 429
    /\ r.hits[t] > 0
    /\ t = "general" => r.hits[RouteTier(r)] = 0

\* the request got past its limiters to the validator or further
Served(r) ==
    \/ r.pc \in {"validate", "controller", "backend"}
    \/ Sent(r) /\ r.status # 429

\* a text is out of the bounds the routes declare for it
OutOfBounds(x, rule) ==
    LET s == ToStringValue(x)
    IN  \/ Len(s) < rule.min
        \/ Len(s) > rule.max
        \/ \E i \in 1..Len(s) : s[i] \notin rule.charset

ParamsInvalid(r) ==
    IF r.route = "search"
    THEN \/ OutOfBounds(r.location, LocationRule)
         \/ r.crimeType.t # "undefined" /\ OutOfBounds(r.crimeType, CrimeTypeRule)
    ELSE r.route = "incident" /\ OutOfBounds(r.incidentId, IncidentIdRule)

C3_FirstMaxAdmitted ==
    \A s \in DOMAIN reqs : \A t \in Tiers :
        LET r == reqs[s]
        IN  Decided(r, t) =>
                /\ r.hits[t] <= TierMax(t) => ~RejectedBy(r, t)
                /\ r.hits[t] >= TierMax(t) + 1 =>
                      RejectedBy(r, t) /\ r.retryAfter > 0

C3_Witness ==
    \E s \in DOMAIN reqs :
        /\ RejectedBy(reqs[s], "general")
        /\ reqs[s].hits["general"] = TierMax("general") + 1
        /\ reqs[s].retryAfter > 0

\* C4: the tiers are layered: a request is served only if the general limiter
\* and the limiter of its route have both counted it within their max, and a
\* request over either max is answered 429.
C4_Layered ==
    \A s \in DOMAIN reqs :
        LET r == reqs[s]
        IN  /\ Served(r) =>
                \A t \in {"general", RouteTier(r)} :
                    r.hits[t] >= 1 /\ r.hits[t] <= TierMax(t)
            /\ \A t \in {"general", RouteTier(r)} :
                    Decided(r, t) /\ r.hits[t] > TierMax(t) =>
                        Sent(r) /\ r.status = 429 /\ r.client = "none"

\* the general limiter alone rejects an incident request whose detail counter
\* still has room
C4_Witness ==
    \E s \in DOMAIN reqs :
        /\ reqs[s].route = "incident"
        /\ RejectedBy(reqs[s], "general")
        /\ counters["details"][reqs[s].ip].count < TierMax("details")

\* C5: whatever the interleaving of the requests in flight, a tier admits at
\* most max requests of one IP in one window, and no two requests of a window
\* are given the same count.
C5_AtomicCount ==
    /\ \A t \in Tiers : \A ip \in IPs : admitted[t][ip] <= TierMax(t)
    /\ \A s1, s2 \in DOMAIN reqs : \A t \in Tiers :
          ( /\ s1 # s2
            /\ reqs[s1].ip = reqs[s2].ip
            /\ reqs[s1].hits[t] > 0
            /\ reqs[s2].hits[t] > 0
            /\ reqs[s1].win[t] = reqs[s2].win[t] )
          => reqs[s1].hits[t] # reqs[s2].hits[t]

\* two requests were counted while the count was max - 1, before either was
\* decided
C5_Witness ==
    \E s1, s2 \in DOMAIN reqs :
        /\ reqs[s1].pc = "tierCheck" /\ reqs[s2].pc = "tierCheck"
        /\ reqs[s1].route = "incident" /\ reqs[s2].route = "incident"
        /\ reqs[s1].hits["details"] = TierMax("details")
        /\ reqs[s2].hits["details"] = TierMax("details") + 1

\* the key-validity rule, as the specification words it
KeyValidBySpec(key) ==
    /\ IsString(key)
    /\ key.v # <<>>
    /\ Len(key.v) > 10
    /\ ~\E i \in 1..(Len(key.v) - 4) : SubSeq(key.v, i, i + 4) = YourUnderscore
    /\ ~\E i \in 1..(Len(key.v) - 6) : SubSeq(key.v, i, i + 6) = Example

\* C6: the factory returns the Mock backend whenever mode is "mock", whenever
\* the credential is invalid, and whenever the environment is "test".
C6_MockWhenever ==
    ( /\ sel.op = "create"
      /\ \/ config.policeRaiderMode = Str(MockMode)
         \/ ~KeyValidBySpec(config.rapidApiKey)
         \/ config.nodeEnv = Str(TestEnv) )
    => sel.client = "mock"

C6_Witness ==
    /\ sel.op = "create"
    /\ config.policeRaiderMode = Str(ProdMode)
    /\ KeyValidBySpec(config.rapidApiKey)
    /\ config.nodeEnv = Str(TestEnv)
    /\ sel.client = "mock"

\* C7: the factory returns the Real backend if and only if mode is staging or
\* prod, the credential is valid and the environment is not "test"; every other
\* configuration yields the Mock backend.
C7_RealIff ==
    sel.op = "create" =>
        /\ sel.client \in {"mock", "real"}
        /\ sel.client = "real" <=>
              /\ config.policeRaiderMode \in {Str(StagingMode), Str(ProdMode)}
              /\ KeyValidBySpec(config.rapidApiKey)
              /\ config.nodeEnv # Str(TestEnv)

C7_Witness ==
    /\ sel.op = "create"
    /\ config.policeRaiderMode = Str(CanaryMode)
    /\ KeyValidBySpec(config.rapidApiKey)
    /\ config.nodeEnv = Str(ProductionEnv)
    /\ sel.client = "mock"

\* C8: each call of the factory derives the mode, the credential and the
\* environment from process.env as it is at the call, so a change of the
\* environment shows in the next selection and the next clientInfo.
C8_FollowsEnvironment ==
    /\ sel.op = "create" =>
          sel.client = createRapidApiClient(ConfigFromEnv(sel.env[1]))
    /\ sel.op = "info" =>
          sel.info = getClientInfo(ConfigFromEnv(sel.env[1]))

\* C9: validateApiKey(key) is true exactly for a non-empty string longer than
\* 10 that contains neither "your_" nor "example"; it is false for "", null and
\* undefined.
C9_KeyValidity ==
    keyRes.called =>
        /\ keyRes.value <=> KeyValidBySpec(keyArg)
        /\ keyArg \in {Str(<<>>), Null, Undefined} => ~keyRes.value

C9_Witness ==
    /\ keyRes.called
    /\ keyArg = Str(ValidKey)
    /\ keyRes.value

\* C10: sanitizeInput is idempotent: sanitizing a sanitized value changes
\* nothing.
C10_Idempotent ==
    Len(sanRes) >= 2 => sanRes[2] = sanRes[1]

-----------------------------------------------------------------------------
(* requestWithRetry *)

\* every attempt the invocation has made so far has failed
AllAttemptsFailed == rw.pc # "idle" /\ rw.calls >= 1 /\ Len(rw.errors) = rw.calls

\* C11: when every attempt fails, requestWithRetry makes maxRetries retries
\* after the first attempt with one backoff sleep before each of them, throws
\* the error of the final attempt, and does not sleep after the final failure;
\* it never returns normally.
C11_ThrowsLastError ==
    AllAttemptsFailed =>
        /\ rw.pc # "returned"
        /\ rw.calls <= rw.maxRetries + 1
        /\ rw.pc = "attempt" => Len(rw.sleeps) = rw.calls
        /\ rw.pc = "sleep" => Len(rw.sleeps) = rw.calls /\ rw.calls <= rw.maxRetries
        /\ rw.pc = "thrown" =>
              /\ rw.calls = rw.maxRetries + 1
              /\ Len(rw.sleeps) = rw.maxRetries
              /\ rw.thrown = rw.errors[rw.maxRetries + 1]

C11_Witness ==
    /\ rw.pc = "thrown"
    /\ rw.maxRetries = DefaultMaxRetries
    /\ Len(rw.sleeps) = DefaultMaxRetries
    /\ rw.thrown # rw.errors[1]
    /\ rw.thrown = rw.errors[DefaultMaxRetries + 1]

\* C12, as stated: with the default settings, one call of requestWithRetry
\* makes at most 3 attempts against the upstream.
C12_AtMostThreeAttempts ==
    (rw.maxRetries = DefaultMaxRetries /\ rw.baseDelay = DefaultBaseDelay) =>
        rw.calls <= 3

\* C13: the sleep after failed attempt k lasts min(baseDelay * 2^k + jitter,
\* maxDelay) with 0 <= jitter < 100; no sleep is longer than maxDelay, and with
\* the default baseDelay each sleep that is not capped is longer than the one
\* before it.
C13_BackoffDelays ==
    \A i \in 1..Len(rw.sleeps) :
        LET k == i - 1
            sl == rw.sleeps[i]
            raw == rw.baseDelay * 2^k + sl.jitter
        IN  /\ sl.attempt = k
            /\ 0 <= sl.jitter /\ sl.jitter < 100
            /\ sl.delay = IF raw <= 3000 THEN raw ELSE 3000
            /\ sl.delay <= 3000
            /\ (rw.baseDelay = 200 /\ i > 1 /\ raw <= 3000) =>
                  rw.sleeps[i - 1].delay < sl.delay

C13_Witness ==
    /\ Len(rw.sleeps) = DefaultMaxRetries
    /\ rw.baseDelay = 1000
    /\ rw.sleeps[1].delay = 1000 + rw.sleeps[1].jitter
    /\ rw.sleeps[1].jitter > rw.sleeps[2].jitter
    /\ rw.sleeps[3].delay = maxDelay

\* C14: a call of searchCrimeData or getIncidentDetails on a real client whose
\* stored credential is invalid throws before any outbound attempt:
\* requestWithRetry is not invoked for it.
C14_InvalidKeyNoAttempt ==
    (cli.client = "real" /\ ~KeyValidBySpec(cli.apiKey)) =>
        /\ cli.pc = "thrown"
        /\ cli.error = KeyRequiredError
        /\ rw = RwIdle

C14_Witness ==
    /\ cli.client = "real"
    /\ cli.method = "getIncidentDetails"
    /\ cli.apiKey = Str(PlaceholderKey)
    /\ cli.pc = "thrown"
    /\ rw.calls = 0

-----------------------------------------------------------------------------
(* The mock client's search *)

\* hay contains needle at some offset, letters compared without case
ContainsIgnoringCase(hay, needle) ==
    \E off \in 0..(Len(hay) - Len(needle)) :
        \A k \in 1..Len(needle) : ToLower(hay[off + k]) = ToLower(needle[k])

\* the records a search for (location, crimeType) is to return
MatchingRecords(location, crimeType) ==
    { MockCrimeData[i] : i \in
        { j \in DOMAIN MockCrimeData :
            /\ IsString(location) =>
                  ContainsIgnoringCase(MockCrimeData[j].location, location.v)
            /\ IsString(crimeType) =>
                  ContainsIgnoringCase(MockCrimeData[j].type, crimeType.v) } }

\* C19: the mock's searchCrimeData returns success with exactly the records
\* whose location contains the location and, when a crimeType is given, whose
\* type contains the crimeType, both without regard to case; total is the
\* number of results; a location that matches nothing gives no results.
C19_MockSearchFilter ==
    (cli.client = "mock" /\ cli.method = "searchCrimeData" /\ cli.pc = "returned") =>
        LET res == cli.result
        IN  /\ res.success
            /\ Range(res.results) = MatchingRecords(cli.location, cli.crimeType)
            /\ Cardinality(Range(res.results)) = Len(res.results)
            /\ res.total = Len(res.results)

C19_Witness ==
    /\ cli.client = "mock"
    /\ cli.pc = "returned"
    /\ cli.location = Str(<<"d","i","s","t","r","i","c","t">>)
    /\ cli.crimeType = Str(<<"a","s","s">>)
    /\ cli.result.results = <<MockCrimeData[3]>>
    /\ cli.result.total = 1

-----------------------------------------------------------------------------
(* The endpoints' responses *)

ServerError == 500..599

\* the backend call made for the request has failed
BackendFailed(r) == Sent(r) /\ r.called # "none" /\ r.thrown # NoError

\* C15, as stated: on the incident endpoint with the mock backend, a valid id
\* of the dataset is answered 200 with the record of that id and a valid id that
\* is not in the dataset is answered 404 "Incident not found"; a backend failure
\* whose message does not contain "not found" is answered with a 5xx status.
C15_MockIncidentOutcome ==
    \A s \in DOMAIN reqs :
        LET r == reqs[s]
        IN  (Sent(r) /\ r.called = "getIncidentDetails") =>
                /\ r.client = "mock" =>
                      IF r.incidentId.v \in MockIncidentIds
                      THEN /\ r.status = 200
                           /\ r.data.ids = <<r.incidentId.v>>
                      ELSE /\ r.status = 404
                           /\ r.error = "Incident not found"
                /\ (r.thrown # NoError /\ ~r.thrown.notFound) =>
                      r.status \in ServerError

C17_OnlyThreeFields ==
    \A s \in DOMAIN reqs :
        LET r == reqs[s]
        IN  (BackendFailed(r) /\ env.NODE_ENV # Str(DevelopmentEnv)) =>
                r.body = {"error", "timestamp", "path"}

\* C17, amended: outside development, the body of an error response for a
\* failed backend call never has the exception's message (details) or stack: it
\* has the fields error and incidentId when the incident controller answers a
\* "not found" failure with 404, and error, timestamp and path otherwise.
C17_NoExceptionDetail ==
    \A s \in DOMAIN reqs :
        LET r == reqs[s]
        IN  (BackendFailed(r) /\ env.NODE_ENV # Str(DevelopmentEnv)) =>
                /\ r.body \cap {"details", "stack"} = {}
                /\ IF r.route = "incident" /\ r.thrown.notFound
                   THEN r.status = 404 /\ r.body = {"error", "incidentId"}
                   ELSE r.body = {"error", "timestamp", "path"}

C17_Witness ==
    \E s \in DOMAIN reqs :
        /\ BackendFailed(reqs[s])
        /\ env.NODE_ENV = Str(ProductionEnv)
        /\ reqs[s].client = "real"
        /\ reqs[s].thrown.code = "ECONNREFUSED"
        /\ reqs[s].status = 503
        /\ reqs[s].body = {"error", "timestamp", "path"}

\* the body of a 200 of GET /health says what the configuration says
HealthReported(r) ==
    /\ r.status = 200
    /\ r.health.status = "healthy"
    /\ r.health.environment = config.nodeEnv
    /\ r.health.mode = config.policeRaiderMode
    /\ r.health.type \in {"mock", "real"}

\* C18, as stated: GET /health has no failure outcome: it is answered 200 with
\* status, environment, mode and client type in every state of the service.
C18_HealthAlways200 ==
    \A s \in DOMAIN reqs :
        (Sent(reqs[s]) /\ reqs[s].route = "health") => HealthReported(reqs[s])

\* C18, amended: GET /health is counted by the general limiter and by no other:
\* it is answered 429 when the client's IP is over its general max in the
\* window, and 200 with status, environment, mode and client type otherwise.
C18_HealthUnlessLimited ==
    \A s \in DOMAIN reqs :
        LET r == reqs[s]
        IN  (Sent(r) /\ r.route = "health") =>
                /\ r.hits["general"] >= 1
                /\ r.hits["search"] = 0
                /\ r.hits["details"] = 0
                /\ IF r.hits["general"] > TierMax("general")
                   THEN r.status = 429 /\ r.retryAfter > 0 /\ r.health = NoHealth
                   ELSE HealthReported(r)

C18_Witness ==
    \E s \in DOMAIN reqs :
        /\ Sent(reqs[s])
        /\ reqs[s].route = "health"
        /\ reqs[s].hits["general"] = TierMax("general") + 1
        /\ reqs[s].status = 429

\* C20, as stated: a search request whose location is missing or is only
\* whitespace gets a validation failure and never reaches searchCrimeData: the
\* location of every search that reaches a backend is non-empty when trimmed.
C20_LocationNotBlank ==
    \A s \in DOMAIN reqs :
        LET r == reqs[s]
            blank == ~IsString(r.location) \/ Trim(r.location.v) = <<>>
        IN  /\ r.called = "searchCrimeData" => ~blank
            /\ (Sent(r) /\ r.route = "search" /\ blank /\ r.status # 429) =>
                  ValidationFailed(r)

-----------------------------------------------------------------------------
(* The order of a request's stages *)

\* the limiter t has counted the request and let it pass
PassedTier(r, t) == r.hits[t] >= 1 /\ r.hits[t] <= TierMax(t) /\ Decided(r, t)

C22_RejectedNotForwarded ==
    \A s \in DOMAIN reqs : \A t \in Tiers :
        LET r == reqs[s]
        IN  /\ (r.hits[t] > TierMax(t) /\ Decided(r, t)) =>
                  /\ Sent(r)
                  /\ r.status = 429
                  /\ r.retryAfter = 900
                  /\ r.body = {"error", "retryAfter"}
                  /\ ~r.validated
                  /\ r.client = "none"
                  /\ r.called = "none"
                  /\ t = "general" => r.hits["search"] = 0 /\ r.hits["details"] = 0
            /\ (Sent(r) /\ r.status = 429) => \E u \in Tiers : r.hits[u] > TierMax(u)

C22_Witness ==
    \E s \in DOMAIN reqs :
        /\ Sent(reqs[s])
        /\ reqs[s].status = 429
        /\ reqs[s].route = "search"
        /\ reqs[s].hits["general"] = TierMax("general") + 1
        /\ reqs[s].hits["search"] = 0
        /\ ~ParamsInvalid(reqs[s])
        /\ reqs[s].retryAfter = 900

-----------------------------------------------------------------------------
(* Windows and counters *)

\* a step that changes the counter of (t, ip) starts a new window with count 1
\* when the counter's window has run out, and adds one to the count otherwise
CountedOrReset(t, ip) ==
    LET c == counters[t][ip]
        d == counters'[t][ip]
    IN  d # c =>
          IF c.start >= 0 /\ nowMs - c.start >= windowMs
          THEN d = [count |-> 1, start |-> nowMs]
          ELSE IF c.start < 0
               THEN d = [count |-> 1, start |-> nowMs]
               ELSE d = [count |-> c.count + 1, start |-> c.start]

\* C23: when the window of a (tier, IP) counter has run out, the next request
\* of that IP at that tier resets the count to one and starts a new window, so
\* an IP that was rejected is admitted again (the tier's max being at least 1)
\* once windowMs has passed since the window's start; a request counted as the
\* first of its window is never rejected.
C23_WindowReset ==
    /\ [][\A t \in Tiers : \A ip \in IPs : CountedOrReset(t, ip)]_vars
    /\ [](\A s \in {1} : \A t \in Tiers :
             (reqs[s].hits[t] = 1 /\ TierMax(t) >= 1) => ~RejectedBy(reqs[s], t))

\* the third incident request of ipA, the only client so far: the first two
\* came in the first window, where the second was rejected by the details
\* limiter (max 1); the third comes when that window has run out, is counted
\* as the first of a new window by both limiters and is let through
C23_Witness ==
    /\ issued = 3
    /\ now = 1
    /\ counters["general"]["ipA"] = [count |-> 1, start |-> windowMs]
    /\ counters["details"]["ipA"] = [count |-> 1, start |-> windowMs]
    /\ counters["search"]["ipA"] = NoCounter
    /\ \A t \in Tiers : counters[t]["ipB"] = NoCounter
    /\ \E s \in DOMAIN reqs :
          /\ reqs[s].ip = "ipA"
          /\ reqs[s].route = "incident"
          /\ reqs[s].hits["details"] = 1
          /\ reqs[s].win["details"] = windowMs
          /\ Served(reqs[s])

\* a step that changes the counter of (t, ip) is the counting of a request of
\* that ip, by the general limiter or by the limiter of the request's route
OwnCounterOnly(t, ip) ==
    counters'[t][ip] # counters[t][ip] =>
        \E s \in {1} :
            /\ reqs[s].ip = ip
            /\ \/ reqs[s].pc = "general" /\ t = "general"
               \/ reqs[s].pc = "tier" /\ t = RouteTier(reqs[s])
            /\ reqs'[s].hits[t] = counters'[t][ip].count

\* C24: the counters are independent per tier and per IP: a request of one IP
\* never changes a counter of another IP, a search request never changes a
\* details counter nor an incident request a search counter, and a 429 is
\* caused only by the request's own IP's count at the tier that rejects it,
\* never by the other route's tier.
C24_CountersIndependent ==
    /\ [][\A t \in Tiers : \A ip \in IPs : OwnCounterOnly(t, ip)]_vars
    /\ [](\A s \in {1} : \A t \in Tiers :
             LET r == reqs[s]
             IN  /\ r.hits[OtherTier(r)] = 0
                 /\ RejectedBy(r, t) =>
                       /\ t # OtherTier(r)
                       /\ r.hits[t] > TierMax(t)
                       /\ counters[t][r.ip].start = r.win[t] =>
                             counters[t][r.ip].count >= r.hits[t])

\* ipA has exhausted its search counter and ipB's search is let through as
\* the first of its window; ipA's details counter is untouched
C24_Witness ==
    /\ counters["search"]["ipA"].count > TierMax("search")
    /\ counters["details"]["ipA"] = NoCounter
    /\ counters["search"]["ipB"].count = 1
    /\ counters["general"]["ipB"].count = 1
    /\ \E s \in DOMAIN reqs :
          /\ reqs[s].ip = "ipB"
          /\ reqs[s].route = "search"
          /\ reqs[s].hits["search"] = 1
          /\ Served(reqs[s])

-----------------------------------------------------------------------------
(* The controller's single call *)

\* C25: the controller does not retry: for one inbound request it selects a
\* backend at most once and invokes the backend method at most once, whether
\* the call succeeds or fails; a request answered after its backend call was
\* answered after exactly one selection and one call.
C25_OneCallPerRequest ==
    \A s \in DOMAIN reqs :
        LET r == reqs[s]
        IN  /\ r.selections <= 1
            /\ r.calls <= 1
            /\ r.calls = r.selections
            /\ r.called # "none" <=> r.calls = 1
            /\ (Sent(r) /\ (r.thrown # NoError \/ r.status = 200) /\ r.route # "health")
                  => r.calls = 1

C25_Witness ==
    \E s \in DOMAIN reqs :
        /\ Sent(reqs[s])
        /\ reqs[s].route = "search"
        /\ reqs[s].client = "real"
        /\ reqs[s].thrown \in UpstreamErrors
        /\ reqs[s].status = 503
        /\ reqs[s].calls = 1

-----------------------------------------------------------------------------
(* The reported client type *)

\* C26: the clientType that getClientInfo reports names the variant that
\* createRapidApiClient returns under the same configuration: it is "real"
\* exactly when the real client is selected, for every mode, key and
\* environment.
C26_ClientTypeIsSelection ==
    sel.op = "info" =>
        (sel.info.clientType = "real" <=> createRapidApiClient(config) = "real")

-----------------------------------------------------------------------------
(* The mock's two datasets *)

\* C27: every incident that the mock's searchCrimeData returns can be
\* retrieved from the mock's getIncidentDetails: for each record of the search
\* result, getIncidentDetails of the record's id succeeds and returns a
\* record with the same id, type, location, date, severity and status.
C27_SearchedIdsRetrievable ==
    (cli.client = "mock" /\ cli.method = "getIncidentDetails") =>
        \A i \in 1..Len(cli.result.results) :
            LET rec == cli.result.results[i]
            IN  rec.id = cli.incidentId.v =>
                    /\ cli.pc = "returned"
                    /\ cli.details.kind = "record"
                    /\ cli.details.data = rec

-----------------------------------------------------------------------------
(* How requestWithRetry ends *)

\* C28: requestWithRetry returns the response of the first attempt that
\* succeeds and does nothing after it: no further attempt and no sleep follow
\* the success, the attempts before it all failed, each followed by one
\* sleep, and a call whose first attempt succeeds never sleeps.
C28_ReturnsFirstSuccess ==
    /\ [](/\ rw.calls <= Len(rw.errors) + 1
          /\ (rw.calls > Len(rw.errors) \/ rw.result = "response") =>
                /\ rw.pc = "returned"
                /\ rw.result = "response"
                /\ rw.calls = Len(rw.errors) + 1
                /\ Len(rw.sleeps) = Len(rw.errors)
                /\ rw.attempt = Len(rw.errors)
                /\ rw.thrown = NoError
          /\ (rw.result = "response" /\ rw.calls = 1) => rw.sleeps = <<>>)
    /\ [][rw.result = "response" => rw' = rw]_vars

C28_Witness ==
    /\ rw.pc = "returned"
    /\ rw.result = "response"
    /\ rw.maxRetries = DefaultMaxRetries
    /\ rw.calls = 2
    /\ Len(rw.errors) = 1
    /\ Len(rw.sleeps) = 1

\* C30: for every integer maxRetries, zero and negative ones included, a call
\* of requestWithRetry makes at least one outbound attempt, and it ends with a
\* response returned or an error thrown: it never completes normally without a
\* response.
C30_NeverEmptyHanded ==
    rw.pc \in {"returned", "thrown"} =>
        /\ rw.calls >= 1
        /\ rw.pc = "returned" => rw.result = "response"
        /\ rw.pc = "thrown" => rw.thrown # NoError

-----------------------------------------------------------------------------
(* One response per request *)

InFlight(r) == r.pc \notin {"idle", "sent"}

\* C29: every request to the search or the incident endpoint is answered:
\* with the mock's delay, the outbound attempts and the backoff sleeps
\* scheduled fairly it reaches the state where its response is sent, and it
\* is sent exactly one response: none while it is in flight, one when it is
\* sent, never two.
C29_ExactlyOneResponse ==
    /\ [](\A s \in {1} :
             /\ reqs[s].responses <= 1
             /\ InFlight(reqs[s]) => reqs[s].responses = 0
             /\ Sent(reqs[s]) => reqs[s].responses = 1 /\ reqs[s].status # 0)
    /\ \A s \in {1} : InFlight(reqs[s]) ~> Sent(reqs[s])

\* a search answered 503 when the last of the four outbound attempts was
\* refused, and an incident request answered by the mock after its delay
C29_Witness ==
    \E s \in DOMAIN reqs :
        /\ Sent(reqs[s])
        /\ reqs[s].route = "search"
        /\ reqs[s].client = "real"
        /\ reqs[s].status = 503
        /\ reqs[s].thrown.code = "ECONNREFUSED"
        /\ reqs[s].responses = 1
        /\ rw = RwIdle
        /\ issued = 2

====
